---- MODULE Spec2Model ----
(***************************************************************************)
(* Jarvis-core: the two-phase tool-orchestration pass of the interactive   *)
(* loop (src/main.py, main) and of the HTTP /chat handler (src/server.py,  *)
(* chat_endpoint), the session store (get_session_history) and the         *)
(* hardened file-read tool's path check (server.py read_local_file).       *)
(*                                                                         *)
(* Texts are TLA+ strings; the Korean literals of the source are written   *)
(* as ASCII stand-ins (the lexer accepts ASCII only), everything else is   *)
(* computed character by character as the Python code computes it.         *)
(***************************************************************************)
EXTENDS Integers, Sequences, FiniteSets, TLC

VARIABLES
    mode,          \* which program runs: "main" (main.py) or "server" (server.py)
    pc,            \* position of the loop / of the handler
    chat_history,  \* main.py: the single in-process history (main.py:117)
    session_db,    \* server.py: session id -> history (server.py:74)
    req,           \* server.py: the request being handled (session_id, message)
    response,      \* first-phase response of the pass in progress
    idx,           \* position of `for tool_call in response.tool_calls`
    calls,         \* invocations of the external capabilities made by this pass
    output,        \* what the pass showed the user (stdout line / HTTP response)
    tool_arg,      \* a tool called on its own: the argument it is given
    tool_effect,   \* a tool called on its own: what it did and returned
    handlers,      \* the /chat tasks on the server's event loop, each with its locals
    approvals      \* what was typed at the approval prompts of this pass

vars == <<mode, pc, chat_history, session_db, req, response, idx, calls, output,
          tool_arg, tool_effect, handlers, approvals>>

----------------------------------------------------------------------------
(* Bounds of the model *)

\* messages held by the histories of one run, all sessions together
MaxMessages == 7
\* tool requests the model capability puts in one response
MaxCalls == 2

----------------------------------------------------------------------------
(* Python string operations *)

Char(s, i) == SubSeq(s, i, i)

\* str.startswith
StartsWith(s, p) == Len(p) <= Len(s) /\ SubSeq(s, 1, Len(p)) = p

\* `p in s`
Contains(s, p) == \E i \in 1..(Len(s) - Len(p) + 1) : SubSeq(s, i, i + Len(p) - 1) = p

UpperLetters == "ABCDEFGHIJKLMNOPQRSTUVWXYZ"
LowerLetters == "abcdefghijklmnopqrstuvwxyz"

\* the lower-case letter of every upper-case letter
LowerOf ==
    [c \in {Char(UpperLetters, i) : i \in 1..26} |->
        Char(LowerLetters, CHOOSE i \in 1..26 : Char(UpperLetters, i) = c)]

LowerChar(c) == IF c \in DOMAIN LowerOf THEN LowerOf[c] ELSE c

\* a comparison that takes the name as the model spelt it
AsSpelt(s) == s

RECURSIVE Lower(_)
\* str.lower
Lower(s) == IF s = "" THEN "" ELSE LowerChar(Char(s, 1)) \o Lower(SubSeq(s, 2, Len(s)))

IsSpace(c) == c \in {" ", "\t", "\n", "\r"}

RECURSIVE LStrip(_)
LStrip(s) == IF s # "" /\ IsSpace(Char(s, 1)) THEN LStrip(SubSeq(s, 2, Len(s))) ELSE s

RECURSIVE RStrip(_)
RStrip(s) == IF s # "" /\ IsSpace(Char(s, Len(s))) THEN RStrip(SubSeq(s, 1, Len(s) - 1)) ELSE s

\* str.strip
Strip(s) == RStrip(LStrip(s))

RECURSIVE ReprBody(_, _)
\* the escaped characters of repr(s) between the quotes q
ReprBody(s, q) ==
    IF s = "" THEN ""
    ELSE LET c == Char(s, 1)
             e == IF c = "\\" THEN "\\\\"
                  ELSE IF c = q THEN "\\" \o q
                  ELSE IF c = "\n" THEN "\\n"
                  ELSE IF c = "\t" THEN "\\t"
                  ELSE IF c = "\r" THEN "\\r"
                  ELSE c
         IN e \o ReprBody(SubSeq(s, 2, Len(s)), q)

\* repr of a str: double quotes when it holds ' and no ", single quotes otherwise
PyRepr(s) ==
    LET q == IF Contains(s, "'") /\ ~Contains(s, "\"") THEN "\"" ELSE "'"
    IN q \o ReprBody(s, q) \o q

----------------------------------------------------------------------------
(* Messages (langchain_core.messages) and tool requests *)

NoId == ""
NoName == ""

SystemMessage(c) ==
    [type |-> "system", content |-> c, tool_calls |-> <<>>, tool_call_id |-> NoId, name |-> NoName]
HumanMessage(c) ==
    [type |-> "human", content |-> c, tool_calls |-> <<>>, tool_call_id |-> NoId, name |-> NoName]
AIMessage(c, tcs) ==
    [type |-> "ai", content |-> c, tool_calls |-> tcs, tool_call_id |-> NoId, name |-> NoName]
ToolMessage(id, n, c) ==
    [type |-> "tool", content |-> c, tool_calls |-> <<>>, tool_call_id |-> id, name |-> n]

\* no response bound yet (`response` before line 154 / 111 of a pass)
NoResponse == AIMessage("", <<>>)

\* index of the Human message that opened the pass
LastHuman(h) ==
    IF \E i \in 1..Len(h) : h[i].type = "human"
    THEN CHOOSE i \in 1..Len(h) : h[i].type = "human" /\ \A j \in (i+1)..Len(h) : h[j].type # "human"
    ELSE 0

\* main.py:118-140, the interviewer persona prompt (abridged)
MainSystemPrompt == "You are 'Jarvis Core', an elite AI architecture reviewer and strict technical interviewer."
\* server.py:79-86, the voice-assistant persona prompt (abridged)
ServerSystemPrompt == "You are 'Jarvis Core', an elite AI architecture reviewer and autonomous agent."

\* main.py:102,115  tools_map = {tool.name: tool for tool in tools}
MainToolsMap == {"get_current_time", "read_local_file", "search_memory", "web_search"}
\* server.py:60,62
ServerToolsMap == {"web_search", "read_local_file", "search_memory"}

----------------------------------------------------------------------------
(* The external collaborators: what the model capability, the tools and the *)
(* user can hand to the loop                                                *)

\* texts a model response can carry: empty, whitespace-only, a real answer
Contents == {"", " \n", "answer"}

Args == "args"

\* the tool requests drawn for a response.  Names: a registered one, a
\* letter-case variant of it, the gated name (registered nowhere) and an
\* invented one with a backslash in it.  Ids: the model is free to repeat a
\* correlation token.
ToolCalls == {[id |-> "call_1", name |-> "delete_database_table", args |-> Args],
              [id |-> "call_1", name |-> "c:\\dir", args |-> Args],
              [id |-> "call_2", name |-> "web_search", args |-> Args],
              [id |-> "call_2", name |-> "Web_Search", args |-> Args]}

CallSeqs(n) == UNION {[1..k -> ToolCalls] : k \in 0..n}

\* responses of jarvis_engine.invoke carrying at most n tool requests
LLMResponses(n) ==
    {AIMessage(c, <<>>) : c \in Contents}
    \cup {AIMessage("answer", tcs) : tcs \in CallSeqs(n) \ {<<>>}}

\* jarvis_engine.invoke either returns a response or raises (model unreachable)
LLMFailure == "connection refused"

\* selected_tool.invoke(args) either returns a string or raises (e.g. the
\* arguments fail the tool's schema validation)
ToolOutcomes == {[raised |-> FALSE, exc |-> "", text |-> "[Web Search Result]\ndata"],
                 [raised |-> TRUE, exc |-> "ValidationError", text |-> "1 validation error for web_search"],
                 [raised |-> TRUE, exc |-> "KeyError", text |-> "query"]}

\* lines typed at the approval prompt (main.py:165)
Approvals == {"y", "Y", "n", "yes"}

\* lines typed at the [User] prompt (main.py:146): the two words that end
\* the loop, and a message that begins with one of them
UserInputs == {"quit now", "QUIT", "exit"}

\* session identifiers of /chat requests; the first is the default (server.py:95)
SessionIds == {"default_user", "mobile"}

RECURSIVE SumOver(_, _)
SumOver(f, S) == IF S = {} THEN 0
                 ELSE LET x == CHOOSE y \in S : TRUE IN f[x] + SumOver(f, S \ {x})

\* every history of the running program, as one function
Histories == IF mode = "main" THEN [k \in {"cli"} |-> chat_history] ELSE session_db

TotalMessages == SumOver([k \in DOMAIN Histories |-> Len(Histories[k])], DOMAIN Histories)

\* messages a pass appends for response r when it runs to its end
Footprint(r) == IF r.tool_calls = <<>> THEN 1 ELSE Len(r.tool_calls) + 2

\* the responses the model capability may return within the bounds
Affordable == {r \in LLMResponses(MaxCalls) : TotalMessages + Footprint(r) <= MaxMessages}

----------------------------------------------------------------------------
(* Observations of a pass *)

\* jarvis_engine.invoke(chat_history) was called, and whether it raised
LLMCall(r) == [kind |-> "llm", tool |-> NoName, at |-> 0, raised |-> r]
\* tools_map[t].invoke(args) was called for request number k of the batch
ToolCall(t, k, r) == [kind |-> "tool", tool |-> t, at |-> k, raised |-> r]
\* input("... (y/n): ") was called for request number k and this was typed
ApprovalCall(answer, k) == [answer |-> answer, at |-> k]

NoOutput == [kind |-> "none", text |-> ""]
\* main.py: a "[Jarvis] ..." line; server.py: ChatResponse.reply (200)
Answer(t) == [kind |-> "answer", text |-> t]
\* main.py:207 the "[Critical Error]" line; server.py:144 HTTPException(500)
Failure(t) == [kind |-> "error", text |-> t]

----------------------------------------------------------------------------
(* Construction *)

EmptyDb == [k \in {} |-> <<>>]

\* the tool has not run
NoEffect == [opened |-> FALSE, returned |-> ""]

InitMain ==
    /\ mode = "main"
    /\ pc = "input"
    /\ chat_history = <<SystemMessage(MainSystemPrompt)>>      \* main.py:117-141
    /\ session_db = EmptyDb
    /\ req = [session_id |-> "", message |-> ""]
    /\ response = NoResponse
    /\ idx = 0
    /\ calls = <<>>
    /\ output = NoOutput
    /\ tool_arg = ""
    /\ tool_effect = NoEffect
    /\ handlers = <<>>
    /\ approvals = <<>>

InitServer ==
    /\ mode = "server"
    /\ pc = "idle"
    /\ chat_history = <<>>
    /\ session_db = EmptyDb                                    \* server.py:74
    /\ req = [session_id |-> "", message |-> ""]
    /\ response = NoResponse
    /\ idx = 0
    /\ calls = <<>>
    /\ output = NoOutput
    /\ tool_arg = ""
    /\ tool_effect = NoEffect
    /\ handlers = <<>>
    /\ approvals = <<>>

Init == InitMain \/ InitServer

----------------------------------------------------------------------------
(* src/main.py: the interactive loop *)

\* main.py:174  the message of the KeyError raised for an unknown name
\* (source text: "'{tool_name}' 도구는 존재하지 않습니다.")
UnknownToolMessage(tool_name) == "'" \o tool_name \o "' tool does not exist."

\* main.py:183  str(e) of a KeyError is the repr of its argument
\* (source text: "[System Fallback] {e} 사용할 수 있는 도구만 사용하세요.")
KeyErrorFallback(msg) == "[System Fallback] " \o PyRepr(msg) \o " Use only the available tools."

\* main.py:186  (source text: "[System Fallback] 도구 실행 실패: {str(e)}")
ExceptionFallback(reason) == "[System Fallback] tool execution failed: " \o reason

\* main.py:167
DeniedText == "User denied."

\* main.py:198 (source text: "(데이터를 확인했으나 답변 생성 중 오류가 발생했습니다.
\* 도구의 Raw Data를 확인하십시오.)")
FallbackMessage == "(The data was checked but an error occurred while generating the answer. Check the tool's raw data.)"

\* main.py:207 (source text: "[Critical Error] Agent 파이프라인 붕괴: {e}")
CriticalError(e) == "[Critical Error] Agent pipeline collapsed: " \o e

\* main.py:164  the name the approval gate stops
Gate(tool_name) == tool_name = "delete_database_table"

\* a gate that refuses every name it does not know
DeniedUnregistered(tool_name, approval) ==
    Lower(tool_name) \notin MainToolsMap /\ Lower(approval) # "y"

\* main.py:164-168  the approval gate: TRUE when the request is refused
Denied(tool_name, approval) == tool_name = "delete_database_table" /\ Lower(approval) # "y"

\* a loop whose fallback for an unknown name does not say which name it was
MainToolOutputNameless(tool_name, outcome) ==
    IF Lower(tool_name) \notin MainToolsMap THEN "[System Fallback] unknown tool."
    ELSE IF ~outcome.raised THEN outcome.text
    ELSE ExceptionFallback(outcome.text)

\* main.py:171-187  the observation of one tool request that passed the gate
MainToolOutput(tool_name, outcome) ==
    IF Lower(tool_name) \notin MainToolsMap THEN KeyErrorFallback(UnknownToolMessage(tool_name))
    ELSE IF ~outcome.raised THEN outcome.text
    ELSE IF outcome.exc = "KeyError" THEN KeyErrorFallback(outcome.text)
    ELSE ExceptionFallback(outcome.text)

\* a loop that stamps the observation with a token of its own
MainObservationOwnToken(tool_call, content) == ToolMessage("call_0", tool_call.name, content)

\* main.py:167, 190  the ToolMessage recorded for a tool request
MainObservation(tool_call, content) == ToolMessage(tool_call.id, tool_call.name, content)

\* a loop that applies the empty-output guard to the first response too
MainFirstAnswerGuarded(r) == Answer(IF Strip(r.content) = "" THEN FallbackMessage ELSE r.content)

\* main.py:204  what is printed when the first response asks for no tool
MainFirstAnswer(r) == Answer(r.content)

\* main.py:197-200  what is printed after the second inference
MainFinalAnswer(content) == IF Strip(content) = "" THEN FallbackMessage ELSE content

\* a tool loop that stops one request early
NextRequestOffByOne ==
    IF idx + 1 < Len(response.tool_calls)
    THEN idx' = idx + 1 /\ pc' = "tools"
    ELSE idx' = 0 /\ pc' = "second"

\* the `for tool_call in response.tool_calls` loop moves on, or ends
NextRequest ==
    IF idx < Len(response.tool_calls)
    THEN idx' = idx + 1 /\ pc' = "tools"
    ELSE idx' = 0 /\ pc' = "second"

\* a loop that drops the messages of the failed pass
MainPipelineFailureRollback(e) ==
    /\ output' = Failure(CriticalError(e))
    /\ pc' = "input"
    /\ idx' = 0
    /\ chat_history' = SubSeq(chat_history, 1, LastHuman(chat_history) - 1)
    /\ UNCHANGED response

\* main.py:206-207  an exception left the pass: report it, go on with the loop
MainPipelineFailure(e) ==
    /\ output' = Failure(CriticalError(e))
    /\ pc' = "input"
    /\ idx' = 0
    /\ UNCHANGED <<chat_history, response>>

\* a loop that records the line before it looks at it
MainReadInputAppendFirst ==
    /\ mode = "main" /\ pc = "input"
    /\ \E user_input \in UserInputs :
        /\ req' = [session_id |-> "", message |-> user_input]
        /\ TotalMessages + 2 <= MaxMessages
        /\ chat_history' = Append(chat_history, HumanMessage(user_input))
        /\ IF Lower(user_input) \in {"quit", "exit"}
           THEN /\ pc' = "halt"
                /\ UNCHANGED <<calls, output, approvals>>
           ELSE /\ pc' = "first"
                /\ calls' = <<>>
                /\ approvals' = <<>>
                /\ output' = NoOutput
    /\ UNCHANGED <<mode, session_db, response, idx, tool_arg, tool_effect, handlers>>

\* main.py:146-150  read a line (kept in req.message); quit/exit leaves the loop
MainReadInput ==
    /\ mode = "main" /\ pc = "input"
    /\ \E user_input \in UserInputs :
        /\ req' = [session_id |-> "", message |-> user_input]
        /\ IF Lower(user_input) \in {"quit", "exit"}
           THEN /\ pc' = "halt"
                /\ UNCHANGED <<chat_history, calls, output, approvals>>
           ELSE /\ TotalMessages + 2 <= MaxMessages
                /\ chat_history' = Append(chat_history, HumanMessage(user_input))
                /\ pc' = "first"
                /\ calls' = <<>>
                /\ approvals' = <<>>
                /\ output' = NoOutput
    /\ UNCHANGED <<mode, session_db, response, idx, tool_arg, tool_effect, handlers>>

\* main.py:154-158, 202-207  first inference and the branch on tool requests
MainFirstInference ==
    /\ mode = "main" /\ pc = "first"
    /\ \/ /\ calls' = Append(calls, LLMCall(TRUE))
          /\ MainPipelineFailure(LLMFailure)
       \/ \E r \in Affordable :
          /\ calls' = Append(calls, LLMCall(FALSE))
          /\ chat_history' = Append(chat_history, r)
          /\ response' = r
          /\ IF r.tool_calls # <<>>
             THEN pc' = "tools" /\ idx' = 1 /\ output' = output
             ELSE pc' = "input" /\ idx' = 0 /\ output' = MainFirstAnswer(r)
    /\ UNCHANGED <<approvals, mode, session_db, req, tool_arg, tool_effect, handlers>>

\* main.py:159-190  one iteration of the tool loop
MainToolStep ==
    /\ mode = "main" /\ pc = "tools"
    /\ LET tool_call == response.tool_calls[idx]
           tool_name == tool_call.name
       IN \E approval \in Approvals, outcome \in ToolOutcomes :
            /\ approvals' = IF Gate(tool_name)
                            THEN Append(approvals, ApprovalCall(approval, idx))
                            ELSE approvals
            /\ IF Denied(tool_name, approval)
               THEN /\ chat_history' = Append(chat_history, MainObservation(tool_call, DeniedText))
                    /\ calls' = calls
               ELSE /\ chat_history' = Append(chat_history,
                           MainObservation(tool_call, MainToolOutput(tool_name, outcome)))
                    /\ calls' = IF Lower(tool_name) \in MainToolsMap
                                THEN Append(calls, ToolCall(Lower(tool_name), idx, outcome.raised))
                                ELSE calls
    /\ NextRequest
    /\ UNCHANGED <<mode, session_db, req, response, output, tool_arg, tool_effect, handlers>>

\* a loop that goes round again when the second response asks for tools
MainSecondInferenceChaining ==
    /\ mode = "main" /\ pc = "second"
    /\ \/ /\ calls' = Append(calls, LLMCall(TRUE))
          /\ MainPipelineFailure(LLMFailure)
       \/ \E r \in Affordable :
          /\ calls' = Append(calls, LLMCall(FALSE))
          /\ chat_history' = Append(chat_history, r)
          /\ IF r.tool_calls # <<>>
             THEN response' = r /\ pc' = "tools" /\ idx' = 1 /\ output' = output
             ELSE /\ output' = Answer(MainFinalAnswer(r.content))
                  /\ pc' = "input"
                  /\ UNCHANGED <<response, idx>>
    /\ UNCHANGED <<approvals, mode, session_db, req, tool_arg, tool_effect, handlers>>

\* main.py:193-200, 206-207  second inference and the empty-output guard
MainSecondInference ==
    /\ mode = "main" /\ pc = "second"
    /\ \/ /\ calls' = Append(calls, LLMCall(TRUE))
          /\ MainPipelineFailure(LLMFailure)
       \/ \E r \in Affordable :
          /\ calls' = Append(calls, LLMCall(FALSE))
          /\ chat_history' = Append(chat_history, r)
          /\ output' = Answer(MainFinalAnswer(r.content))
          /\ pc' = "input"
          /\ UNCHANGED <<response, idx>>
    /\ UNCHANGED <<approvals, mode, session_db, req, tool_arg, tool_effect, handlers>>

NextMain == MainReadInput \/ MainFirstInference \/ MainToolStep \/ MainSecondInference

\* the interactive loop alone
SpecMainLoop == InitMain /\ [][NextMain]_vars

----------------------------------------------------------------------------
(* src/server.py: the session store and the /chat handler.  chat_endpoint  *)
(* is an `async def` whose body never awaits, so the event loop runs one   *)
(* handler from its first line to its return before it starts the next.    *)

\* a store that seeds the system prompt on every access
get_session_history_seeding(db, session_id) ==
    IF session_id \notin DOMAIN db
    THEN (session_id :> <<SystemMessage(ServerSystemPrompt)>>) @@ db
    ELSE [db EXCEPT ![session_id] = Append(@, SystemMessage(ServerSystemPrompt))]

\* a store that hands out a fresh history on every access
get_session_history_fresh(db, session_id) ==
    (session_id :> <<SystemMessage(ServerSystemPrompt)>>) @@ db

\* server.py:76-88  the store after get_session_history(session_id); the
\* list it returns is session_db[session_id] itself
get_session_history(db, session_id) ==
    IF session_id \notin DOMAIN db
    THEN (session_id :> <<SystemMessage(ServerSystemPrompt)>>) @@ db
    ELSE db

\* server.py:144
InternalServerError == "Internal Server Error"

\* bodies of /chat requests
Messages == {"hello"}

\* a store whose sessions all share one list
AppendToSessionShared(db, session_id, m) == [k \in DOMAIN db |-> Append(db[k], m)]

\* chat_history.append(m) on the list of the request's session
AppendToSession(db, session_id, m) == [db EXCEPT ![session_id] = Append(@, m)]

\* a handler that records the observation without the correlation token
ChatObservationNoId(tool_call, content) == ToolMessage(NoId, tool_call.name, content)

\* server.py:125-129  the ToolMessage recorded for an executed tool request
ChatObservation(tool_call, content) == ToolMessage(tool_call.id, tool_call.name, content)

\* server.py:139-140  the reply when the first response asks for no tool
ChatFirstReply(r) == Answer(r.content)

\* server.py:135-136  the reply after the second inference
ChatFinalReply(r) == Answer(r.content)

\* server.py:142-144  an exception left the handler: answer 500
ChatPipelineFailure ==
    /\ output' = Failure(InternalServerError)
    /\ pc' = "idle"
    /\ idx' = 0
    /\ UNCHANGED <<session_db, response>>

\* server.py:102-108  a request arrives
ChatStart ==
    /\ mode = "server" /\ pc = "idle"
    /\ \E session_id \in SessionIds, message \in Messages :
        LET db == get_session_history(session_db, session_id)
        IN /\ TotalMessages + (IF session_id \in DOMAIN session_db THEN 2 ELSE 3) <= MaxMessages
           /\ req' = [session_id |-> session_id, message |-> message]
           /\ session_db' = AppendToSession(db, session_id, HumanMessage(message))
    /\ pc' = "first"
    /\ calls' = <<>>
    /\ output' = NoOutput
    /\ UNCHANGED <<approvals, mode, chat_history, response, idx, tool_arg, tool_effect, handlers>>

\* server.py:111-115, 138-144  first inference and the branch on tool requests
ChatFirstInference ==
    /\ mode = "server" /\ pc = "first"
    /\ \/ /\ calls' = Append(calls, LLMCall(TRUE))
          /\ ChatPipelineFailure
       \/ \E r \in Affordable :
          /\ calls' = Append(calls, LLMCall(FALSE))
          /\ session_db' = AppendToSession(session_db, req.session_id, r)
          /\ response' = r
          /\ IF r.tool_calls # <<>>
             THEN pc' = "tools" /\ idx' = 1 /\ output' = output
             ELSE pc' = "idle" /\ idx' = 0 /\ output' = ChatFirstReply(r)
    /\ UNCHANGED <<approvals, mode, chat_history, req, tool_arg, tool_effect, handlers>>

\* a handler that answers an unknown name with a fallback observation, as
\* the interactive loop does
ChatToolStepFallback ==
    /\ mode = "server" /\ pc = "tools"
    /\ LET tool_call == response.tool_calls[idx]
           tool_name == tool_call.name
       IN \E outcome \in ToolOutcomes :
            IF Lower(tool_name) \notin ServerToolsMap
            THEN /\ session_db' = AppendToSession(session_db, req.session_id,
                                    ChatObservation(tool_call, MainToolOutput(tool_name, outcome)))
                 /\ NextRequest
                 /\ UNCHANGED <<calls, output>>
            ELSE /\ calls' = Append(calls, ToolCall(Lower(tool_name), idx, outcome.raised))
                 /\ IF outcome.raised
                    THEN ChatPipelineFailure
                    ELSE /\ session_db' = AppendToSession(session_db, req.session_id,
                                            ChatObservation(tool_call, outcome.text))
                         /\ NextRequest
                         /\ UNCHANGED output
    /\ UNCHANGED <<approvals, mode, chat_history, req, response, tool_arg, tool_effect, handlers>>

\* server.py:116-129, 142-144  one iteration of the tool loop
ChatToolStep ==
    /\ mode = "server" /\ pc = "tools"
    /\ LET tool_call == response.tool_calls[idx]
           tool_name == tool_call.name
       IN IF Lower(tool_name) \notin ServerToolsMap
          THEN /\ NextRequest                                 \* continue
               /\ UNCHANGED <<session_db, calls, output>>
          ELSE \E outcome \in ToolOutcomes :
               /\ calls' = Append(calls, ToolCall(Lower(tool_name), idx, outcome.raised))
               /\ IF outcome.raised
                  THEN ChatPipelineFailure
                  ELSE /\ session_db' = AppendToSession(session_db, req.session_id,
                                          ChatObservation(tool_call, outcome.text))
                       /\ NextRequest
                       /\ UNCHANGED output
    /\ UNCHANGED <<approvals, mode, chat_history, req, response, tool_arg, tool_effect, handlers>>

\* server.py:132-136, 142-144  second inference
ChatSecondInference ==
    /\ mode = "server" /\ pc = "second"
    /\ \/ /\ calls' = Append(calls, LLMCall(TRUE))
          /\ ChatPipelineFailure
       \/ \E r \in Affordable :
          /\ calls' = Append(calls, LLMCall(FALSE))
          /\ session_db' = AppendToSession(session_db, req.session_id, r)
          /\ output' = ChatFinalReply(r)
          /\ pc' = "idle"
          /\ UNCHANGED <<response, idx>>
    /\ UNCHANGED <<approvals, mode, chat_history, req, tool_arg, tool_effect, handlers>>

NextServer == ChatStart \/ ChatFirstInference \/ ChatToolStep \/ ChatSecondInference

Next == NextMain \/ NextServer

Spec == Init /\ [][Next]_vars

----------------------------------------------------------------------------
(* src/server.py under simultaneous requests.  uvicorn turns every request  *)
(* into a task on one event loop (server.py:147 starts a single serving     *)
(* process); a task runs chat_endpoint with its own locals and the shared   *)
(* session_db.                                                              *)

\* requests in flight at once
MaxHandlers == 2

HandlerIds == 1..MaxHandlers

\* a task slot no request has taken yet
NoHandler == [pc |-> "none", req |-> [session_id |-> "", message |-> ""],
              response |-> NoResponse, idx |-> 0, at |-> 0, appended |-> 0,
              output |-> NoOutput]

\* the task is between the first and the last line of chat_endpoint
MidBody(g) == handlers[g].pc \in {"first", "tools", "second"}

\* a body whose model and tool calls are awaited: the loop may run any task
EventLoopRunsAwaiting(h) == TRUE

\* server.py:102-144  chat_endpoint is a coroutine with no await in it, and
\* jarvis_engine.invoke / selected_tool.invoke are blocking calls: once the
\* loop has entered a task's body it runs it to its return, so it may run
\* task h only when no other task is inside the body
EventLoopRuns(h) == \A g \in HandlerIds \ {h} : ~MidBody(g)

\* the responses a task may receive: within the bounds, at most one tool
\* request each
HandlerResponses == {r \in Affordable : Len(r.tool_calls) <= 1}

\* the for loop of server.py:116 in task h moves on, or ends
HandlerNextRequest(h) ==
    IF handlers[h].idx < Len(handlers[h].response.tool_calls)
    THEN [handlers[h] EXCEPT !.idx = @ + 1, !.pc = "tools"]
    ELSE [handlers[h] EXCEPT !.idx = 0, !.pc = "second"]

\* server.py:142-144 in task h
HandlerFailure(h) ==
    [handlers[h] EXCEPT !.pc = "done", !.idx = 0, !.output = Failure(InternalServerError)]

InitConcurrent ==
    /\ mode = "asgi"
    /\ pc = "idle"
    /\ chat_history = <<>>
    /\ session_db = EmptyDb
    /\ req = [session_id |-> "", message |-> ""]
    /\ response = NoResponse
    /\ idx = 0
    /\ calls = <<>>
    /\ output = NoOutput
    /\ tool_arg = ""
    /\ tool_effect = NoEffect
    /\ handlers = [h \in HandlerIds |-> NoHandler]
    /\ approvals = <<>>

\* a client posts to /chat: the request becomes a task waiting for the loop
TaskArrive(h) ==
    /\ mode = "asgi" /\ handlers[h].pc = "none"
    /\ \E session_id \in SessionIds, message \in Messages :
        handlers' = [handlers EXCEPT ![h] =
                        [@ EXCEPT !.pc = "queued",
                                  !.req = [session_id |-> session_id, message |-> message]]]
    /\ UNCHANGED <<approvals, mode, pc, chat_history, session_db, req, response, idx, calls, output,
                   tool_arg, tool_effect>>

\* server.py:102-108 in task h
TaskStart(h) ==
    /\ mode = "asgi" /\ handlers[h].pc = "queued" /\ EventLoopRuns(h)
    /\ LET session_id == handlers[h].req.session_id
           db == get_session_history(session_db, session_id)
       IN /\ TotalMessages + (IF session_id \in DOMAIN session_db THEN 2 ELSE 3) <= MaxMessages
          /\ session_db' = AppendToSession(db, session_id, HumanMessage(handlers[h].req.message))
          /\ handlers' = [handlers EXCEPT ![h] =
                            [@ EXCEPT !.pc = "first", !.at = Len(db[session_id]) + 1,
                                      !.appended = 0]]
    /\ UNCHANGED <<approvals, mode, pc, chat_history, req, response, idx, calls, output,
                   tool_arg, tool_effect>>

\* server.py:111-115, 138-144 in task h
TaskFirstInference(h) ==
    /\ mode = "asgi" /\ handlers[h].pc = "first" /\ EventLoopRuns(h)
    /\ \/ /\ handlers' = [handlers EXCEPT ![h] = HandlerFailure(h)]
          /\ UNCHANGED session_db
       \/ \E r \in HandlerResponses :
          /\ session_db' = AppendToSession(session_db, handlers[h].req.session_id, r)
          /\ handlers' = [handlers EXCEPT ![h] =
                IF r.tool_calls # <<>>
                THEN [@ EXCEPT !.response = r, !.pc = "tools", !.idx = 1, !.appended = @ + 1]
                ELSE [@ EXCEPT !.response = r, !.pc = "done", !.idx = 0, !.appended = @ + 1,
                               !.output = ChatFirstReply(r)]]
    /\ UNCHANGED <<approvals, mode, pc, chat_history, req, response, idx, calls, output,
                   tool_arg, tool_effect>>

\* server.py:116-129, 142-144 in task h
TaskToolStep(h) ==
    /\ mode = "asgi" /\ handlers[h].pc = "tools" /\ EventLoopRuns(h)
    /\ LET tool_call == handlers[h].response.tool_calls[handlers[h].idx]
           tool_name == tool_call.name
       IN IF Lower(tool_name) \notin ServerToolsMap
          THEN /\ handlers' = [handlers EXCEPT ![h] = HandlerNextRequest(h)]
               /\ UNCHANGED session_db
          ELSE \E outcome \in ToolOutcomes :
               IF outcome.raised
               THEN /\ handlers' = [handlers EXCEPT ![h] = HandlerFailure(h)]
                    /\ UNCHANGED session_db
               ELSE /\ session_db' = AppendToSession(session_db, handlers[h].req.session_id,
                                        ChatObservation(tool_call, outcome.text))
                    /\ handlers' = [handlers EXCEPT ![h] =
                                      [HandlerNextRequest(h) EXCEPT !.appended = @ + 1]]
    /\ UNCHANGED <<approvals, mode, pc, chat_history, req, response, idx, calls, output,
                   tool_arg, tool_effect>>

\* server.py:132-136, 142-144 in task h
TaskSecondInference(h) ==
    /\ mode = "asgi" /\ handlers[h].pc = "second" /\ EventLoopRuns(h)
    /\ \/ /\ handlers' = [handlers EXCEPT ![h] = HandlerFailure(h)]
          /\ UNCHANGED session_db
       \/ \E r \in HandlerResponses :
          /\ session_db' = AppendToSession(session_db, handlers[h].req.session_id, r)
          /\ handlers' = [handlers EXCEPT ![h] =
                            [@ EXCEPT !.pc = "done", !.appended = @ + 1,
                                      !.output = ChatFinalReply(r)]]
    /\ UNCHANGED <<approvals, mode, pc, chat_history, req, response, idx, calls, output,
                   tool_arg, tool_effect>>

NextConcurrent ==
    \E h \in HandlerIds :
        \/ TaskArrive(h)
        \/ TaskStart(h)
        \/ TaskFirstInference(h)
        \/ TaskToolStep(h)
        \/ TaskSecondInference(h)

SpecConcurrent == InitConcurrent /\ [][NextConcurrent]_vars

----------------------------------------------------------------------------
(* src/server.py: read_local_file, the hardened file-read tool, called on   *)
(* its own with every path of a small family                                *)

\* segments a relative path is made of
MaxDepth == 3

RECURSIVE Split(_)
\* s.split("/")
Split(s) ==
    IF ~Contains(s, "/") THEN <<s>>
    ELSE LET i == CHOOSE n \in 1..Len(s) :
                    Char(s, n) = "/" /\ \A m \in 1..(n - 1) : Char(s, m) # "/"
         IN <<SubSeq(s, 1, i - 1)>> \o Split(SubSeq(s, i + 1, Len(s)))

IsSegment(x) == x # "" /\ x # "."

\* pathlib: the parts of a POSIX path below the root ("" and "." are dropped)
PathParts(s) == SelectSeq(Split(s), IsSegment)

IsAbsolute(s) == StartsWith(s, "/")

RECURSIVE JoinParts(_)
\* str() of an absolute path with these parts
JoinParts(parts) == IF parts = <<>> THEN ""
                    ELSE "/" \o Head(parts) \o JoinParts(Tail(parts))
PathStr(parts) == IF parts = <<>> THEN "/" ELSE JoinParts(parts)

RECURSIVE ResolveOnto(_, _)
\* Path.resolve() on a file system without symbolic links: ".." steps up and
\* stays at the root
ResolveOnto(done, rest) ==
    IF rest = <<>> THEN done
    ELSE IF Head(rest) = ".."
         THEN ResolveOnto(IF done = <<>> THEN <<>> ELSE SubSeq(done, 1, Len(done) - 1),
                          Tail(rest))
         ELSE ResolveOnto(Append(done, Head(rest)), Tail(rest))

\* Path.home() on the Mac the tool is written for
HomeParts == <<"Users", "jiwoong">>

\* server.py:33  base_dir = Path.home() / "Desktop" / "portfolio"
BaseDirParts == HomeParts \o <<"Desktop", "portfolio">>

\* server.py:34  target_path = (base_dir / file_path).resolve(); an absolute
\* file_path replaces base_dir in the join
TargetParts(file_path) ==
    ResolveOnto(<<>>, IF IsAbsolute(file_path) THEN PathParts(file_path)
                      ELSE BaseDirParts \o PathParts(file_path))

\* server.py:36  the containment test, on the two path strings
PassesCheck(file_path) ==
    StartsWith(PathStr(TargetParts(file_path)), PathStr(BaseDirParts))

\* server.py:37
SecurityViolation == "[Error] Security Violation: Attempted to access files outside the project directory."

\* what the file system answers: the target is absent, it is read, or the
\* read raises
FsAnswers == {"absent", "read", "raises"}

\* server.py:31-46  the tool's effect for one path and one file-system answer
ReadLocalFileEffect(file_path, fs) ==
    LET target == TargetParts(file_path) IN
    IF ~PassesCheck(file_path)
    THEN [opened |-> FALSE, returned |-> SecurityViolation]
    ELSE IF fs = "absent"
    THEN [opened |-> FALSE, returned |-> "[Error] File not found at " \o PathStr(target)]
    ELSE IF fs = "raises"
    THEN [opened |-> TRUE, returned |-> "[Error] Failed to read file: [Errno 13] Permission denied"]
    ELSE [opened |-> TRUE,
          returned |-> "[File Content of "
                       \o (IF target = <<>> THEN "" ELSE target[Len(target)])
                       \o "]\ncontent"]

Segments == {"..", ".", "src", "portfolio_old"}

RelativePaths ==
    {SubSeq(JoinParts(parts), 2, Len(JoinParts(parts))) :
        parts \in UNION {[1..k -> Segments] : k \in 1..MaxDepth}}

AbsolutePaths == {"/etc/passwd",
                  "/Users/jiwoong/Desktop/portfolio/main.c",
                  "/Users/jiwoong/Desktop/portfolio_old/key.pem"}

FilePaths == RelativePaths \cup AbsolutePaths

InitReadLocalFile ==
    /\ mode = "read_local_file"
    /\ pc = "call"
    /\ chat_history = <<>>
    /\ session_db = EmptyDb
    /\ req = [session_id |-> "", message |-> ""]
    /\ response = NoResponse
    /\ idx = 0
    /\ calls = <<>>
    /\ output = NoOutput
    /\ tool_arg \in FilePaths
    /\ tool_effect = NoEffect
    /\ handlers = <<>>
    /\ approvals = <<>>

\* read_local_file.invoke({"file_path": tool_arg})
ServerReadLocalFile ==
    /\ mode = "read_local_file" /\ pc = "call"
    /\ \E fs \in FsAnswers : tool_effect' = ReadLocalFileEffect(tool_arg, fs)
    /\ pc' = "done"
    /\ UNCHANGED <<approvals, mode, chat_history, session_db, req, response, idx, calls, output, tool_arg, handlers>>

NextReadLocalFile == ServerReadLocalFile

SpecReadLocalFile == InitReadLocalFile /\ [][NextReadLocalFile]_vars

----------------------------------------------------------------------------
(* The tools of src/main.py (and the web search and memory search of       *)
(* src/server.py), each called on its own                                   *)

\* keywords or fragments a timezone_query is made of
MaxWords == 2

\* the upper-case letter of every lower-case letter
UpperOf ==
    [c \in {Char(LowerLetters, i) : i \in 1..26} |->
        Char(UpperLetters, CHOOSE i \in 1..26 : Char(LowerLetters, i) = c)]

UpperChar(c) == IF c \in DOMAIN UpperOf THEN UpperOf[c] ELSE c

RECURSIVE Upper(_)
\* str.upper
Upper(s) == IF s = "" THEN "" ELSE UpperChar(Char(s, 1)) \o Upper(SubSeq(s, 2, Len(s)))

\* the fourth key of zone_mapping is written in Hangul (U+D55C U+AD6D, which
\* str.upper leaves alone); it is spelt here by its two code points
HangulKey == "#54620#44397"

\* main.py:18-21  zone_mapping, in the order the dict literal lists it
zone_mapping == <<[key |-> "KST", val |-> "Asia/Seoul"],
                  [key |-> "SEOUL", val |-> "Asia/Seoul"],
                  [key |-> "KOREA", val |-> "Asia/Seoul"],
                  [key |-> HangulKey, val |-> "Asia/Seoul"],
                  [key |-> "CST", val |-> "America/Chicago"],
                  [key |-> "TEXAS", val |-> "America/Chicago"],
                  [key |-> "CHICAGO", val |-> "America/Chicago"]>>

\* a resolution that compares the query as it was typed
TargetZoneCaseSensitive(timezone_query) ==
    LET hits == {i \in 1..Len(zone_mapping) : Contains(timezone_query, zone_mapping[i].key)}
    IN IF hits = {} THEN "America/Chicago"
       ELSE zone_mapping[CHOOSE i \in hits : \A j \in hits : i <= j].val

\* main.py:23-29  target_zone_str after the loop over zone_mapping.items()
TargetZone(timezone_query) ==
    LET query_upper == Upper(timezone_query)
        hits == {i \in 1..Len(zone_mapping) : Contains(query_upper, zone_mapping[i].key)}
    IN IF hits = {} THEN "America/Chicago"
       ELSE zone_mapping[CHOOSE i \in hits : \A j \in hits : i <= j].val

\* os.path.expanduser for the current user
ExpandUser(path) ==
    IF path = "~" \/ StartsWith(path, "~/")
    THEN "/Users/jiwoong" \o SubSeq(path, 2, Len(path))
    ELSE path

\* what a tool's internal call can do: succeed, or raise with this text
InternalOutcomes == {[raised |-> FALSE, text |-> "data"],
                     [raised |-> FALSE, text |-> ""],
                     [raised |-> TRUE, text |-> "timed out"],
                     [raised |-> TRUE, text |-> "[Errno 13] Permission denied"]}

\* the internal call a tool made: ZoneInfo(key), open(path),
\* similarity_search(query), DuckDuckGoSearchRun().invoke(query)
InternalCall(what, r) == [kind |-> "internal", tool |-> what, at |-> 0, raised |-> r]

\* main.py:31-38 (source text of the success string: "[System Data] 요청하신
\* 지역의 정확한 시스템 시간은 ... 입니다. ...")
MainGetCurrentTimeEffect(timezone_query, o) ==
    [opened |-> FALSE,
     returned |-> IF o.raised THEN "Error computing time: " \o o.text
                  ELSE "[System Data] The exact system time of the requested region is "
                       \o o.text \o "."]

\* main.py:46-52
MainReadLocalFileEffect(file_path, o) ==
    [opened |-> ~o.raised,
     returned |-> IF o.raised THEN "Error reading file: " \o o.text
                  ELSE "[File Content of " \o file_path \o "]\n" \o o.text]

\* main.py:61-78 (source text: "[System Data] DB에서 관련된 기억을 찾을 수
\* 없습니다." and "[Error] 메모리 검색 시스템 장애: {e}")
MainSearchMemoryEffect(query, o) ==
    [opened |-> FALSE,
     returned |-> IF o.raised THEN "[Error] memory search system failure: " \o o.text
                  ELSE IF o.text = "" THEN "[System Data] No related memory was found in the DB."
                  ELSE "[Retrieved Memory from Vector DB]\nData 1: " \o o.text \o "\n"]

\* main.py:86-91 and server.py:19-23
WebSearchEffect(query, o) ==
    [opened |-> FALSE,
     returned |-> IF o.raised THEN "[Error] Web search failed: " \o o.text
                  ELSE "[Web Search Result]\n" \o o.text]

\* server.py:50-52
ServerSearchMemoryEffect(query) ==
    [opened |-> FALSE,
     returned |-> "[Memory] (Vector DB integration is pending. Placeholder response.)"]

Words == {"kst", "Kst", "KST", "kS", "T", "seoul", "Korea", HangulKey,
          "cst", "Texas", "now", " "}

RECURSIVE Concat(_)
Concat(ws) == IF ws = <<>> THEN "" ELSE Head(ws) \o Concat(Tail(ws))

TimezoneQueries == {Concat(ws) : ws \in UNION {[1..k -> Words] : k \in 1..MaxWords}}

ToolInvocations ==
    {[program |-> "main", tool |-> "get_current_time", arg |-> q] : q \in TimezoneQueries}
    \cup {[program |-> "main", tool |-> "read_local_file", arg |-> a] :
            a \in {"~/Desktop/portfolio/main.c", "main.c"}}
    \cup {[program |-> pr, tool |-> t, arg |-> "smart-freight-ai"] :
            pr \in {"main", "server"}, t \in {"search_memory", "web_search"}}

InitToolCall ==
    /\ mode = "tool"
    /\ pc = "call"
    /\ chat_history = <<>>
    /\ session_db = EmptyDb
    /\ req = [session_id |-> "", message |-> ""]
    /\ response = NoResponse
    /\ idx = 0
    /\ calls = <<>>
    /\ output = NoOutput
    /\ tool_arg \in ToolInvocations
    /\ tool_effect = NoEffect
    /\ handlers = <<>>
    /\ approvals = <<>>

\* main.py  get_current_time.invoke({"timezone_query": arg})
MainGetCurrentTime ==
    /\ mode = "tool" /\ pc = "call"
    /\ tool_arg.program = "main" /\ tool_arg.tool = "get_current_time"
    /\ \E o \in InternalOutcomes :
        /\ o.text # ""
        /\ calls' = <<InternalCall(TargetZone(tool_arg.arg), o.raised)>>
        /\ tool_effect' = MainGetCurrentTimeEffect(tool_arg.arg, o)
    /\ pc' = "done"
    /\ UNCHANGED <<approvals, mode, chat_history, session_db, req, response, idx, output, tool_arg, handlers>>

\* main.py  read_local_file.invoke({"file_path": arg})
MainReadLocalFile ==
    /\ mode = "tool" /\ pc = "call"
    /\ tool_arg.program = "main" /\ tool_arg.tool = "read_local_file"
    /\ \E o \in InternalOutcomes :
        /\ calls' = <<InternalCall(ExpandUser(tool_arg.arg), o.raised)>>
        /\ tool_effect' = MainReadLocalFileEffect(tool_arg.arg, o)
    /\ pc' = "done"
    /\ UNCHANGED <<approvals, mode, chat_history, session_db, req, response, idx, output, tool_arg, handlers>>

\* main.py  search_memory.invoke({"query": arg})
MainSearchMemory ==
    /\ mode = "tool" /\ pc = "call"
    /\ tool_arg.program = "main" /\ tool_arg.tool = "search_memory"
    /\ \E o \in InternalOutcomes :
        /\ calls' = <<InternalCall(tool_arg.arg, o.raised)>>
        /\ tool_effect' = MainSearchMemoryEffect(tool_arg.arg, o)
    /\ pc' = "done"
    /\ UNCHANGED <<approvals, mode, chat_history, session_db, req, response, idx, output, tool_arg, handlers>>

\* main.py and server.py  web_search.invoke({"query": arg})
WebSearch ==
    /\ mode = "tool" /\ pc = "call"
    /\ tool_arg.tool = "web_search"
    /\ \E o \in InternalOutcomes :
        /\ calls' = <<InternalCall(tool_arg.arg, o.raised)>>
        /\ tool_effect' = WebSearchEffect(tool_arg.arg, o)
    /\ pc' = "done"
    /\ UNCHANGED <<approvals, mode, chat_history, session_db, req, response, idx, output, tool_arg, handlers>>

\* server.py  search_memory.invoke({"query": arg})
ServerSearchMemory ==
    /\ mode = "tool" /\ pc = "call"
    /\ tool_arg.program = "server" /\ tool_arg.tool = "search_memory"
    /\ tool_effect' = ServerSearchMemoryEffect(tool_arg.arg)
    /\ pc' = "done"
    /\ UNCHANGED <<approvals, mode, chat_history, session_db, req, response, idx, calls, output,
                   tool_arg, handlers>>

InitTools == InitToolCall \/ InitReadLocalFile

NextTools ==
    \/ MainGetCurrentTime
    \/ MainReadLocalFile
    \/ MainSearchMemory
    \/ WebSearch
    \/ ServerSearchMemory
    \/ ServerReadLocalFile

SpecTools == InitTools /\ [][NextTools]_vars

----------------------------------------------------------------------------
(* Reading a state: the pass in progress (or the last one, once it is over) *)

ToolsMap == IF mode = "main" THEN MainToolsMap ELSE ServerToolsMap

\* the history the pass works on
CurrentHistory ==
    IF mode = "main" THEN chat_history
    ELSE IF req.session_id \in DOMAIN session_db THEN session_db[req.session_id]
    ELSE <<>>

PassOver == pc \in {"input", "idle", "halt"}

\* the first inference of the pass returned: `response` is its response
FirstResponded == Len(calls) >= 1 /\ ~calls[1].raised

Batch == IF FirstResponded THEN response.tool_calls ELSE <<>>

\* the second inference of the pass returned
SecondResponded ==
    Len(calls) >= 2 /\ calls[Len(calls)].kind = "llm" /\ ~calls[Len(calls)].raised

IsToolEvent(e) == e.kind = "tool"
ToolEvents == SelectSeq(calls, IsToolEvent)

\* index of the first-phase response in the history
FirstAt == LastHuman(CurrentHistory) + 1

\* the messages the pass appended after its first-phase response
AfterFirst == SubSeq(CurrentHistory, FirstAt + 1, Len(CurrentHistory))

IsToolMessage(m) == m.type = "tool"

Registered(k) == Lower(Batch[k].name) \in ToolsMap

\* the requests of the batch that name a registered tool, in emitted order
ExpectedAts == SelectSeq([k \in 1..Len(Batch) |-> k], Registered)

\* main.py: requests of the batch the tool loop is done with
MainProcessed ==
    IF mode # "main" \/ ~FirstResponded THEN 0
    ELSE IF pc = "tools" THEN idx - 1
    ELSE Len(Batch)

\* main.py: the message recorded for request k
MainResult(k) == chat_history[FirstAt + k]

RaisedReasons == {o.text : o \in {x \in ToolOutcomes : x.raised}}

----------------------------------------------------------------------------
(* C1 *)

\* C1: in both adapters, when a tool's invoke raises for a request of the
\* batch, the pass is not aborted: a ToolResult for that request whose text
\* holds the failure reason is in the history, and the pass does not end at
\* the raising invocation (the rest of the batch and the second inference
\* follow).
C1_ToolFailureDoesNotAbort ==
    \A j \in 1..Len(calls) :
        (calls[j].kind = "tool" /\ calls[j].raised) =>
            LET tc == response.tool_calls[calls[j].at]
                h == CurrentHistory
            IN /\ \E i \in (FirstAt + 1)..Len(h) :
                    /\ h[i].type = "tool"
                    /\ h[i].tool_call_id = tc.id
                    /\ h[i].name = tc.name
                    /\ \E t \in RaisedReasons : Contains(h[i].content, t)
               /\ ~(PassOver /\ j = Len(calls))

----------------------------------------------------------------------------
(* C2 *)

\* C2: in both adapters, when the second-phase response has empty or
\* whitespace-only text, the user-visible output of the pass is the fixed
\* fallback message and never an empty or whitespace-only string.
C2_BlankFinalGetsFallback ==
    (PassOver /\ FirstResponded /\ SecondResponded /\ output.kind = "answer"
        /\ Strip(CurrentHistory[Len(CurrentHistory)].content) = "")
    => (output.text = FallbackMessage /\ Strip(output.text) # "")

----------------------------------------------------------------------------
(* C3 *)

\* the name as repr writes it inside the KeyError message of main.py:174
EscapedName(n) == ReprBody(n, IF Contains(n, "\"") THEN "'" ELSE "\"")

MainResultCount == Len(SelectSeq(SubSeq(chat_history, FirstAt + 1,
                                        FirstAt + MainProcessed), IsToolMessage))

\* C3 as stated: in the interactive adapter every tool request whose name is
\* not registered gets exactly one ToolResult with its id, whose text contains
\* the invalid tool name, and the pass goes on.
C3_UnregisteredNameInText ==
    mode = "main" =>
        \A k \in 1..MainProcessed :
            ~Registered(k) =>
                /\ MainResult(k).type = "tool"
                /\ MainResult(k).tool_call_id = Batch[k].id
                /\ Contains(MainResult(k).content, Batch[k].name)

\* C3 amended: in the interactive adapter every tool request whose name is
\* not registered gets exactly one ToolResult with its id and name, raising
\* nothing; its text is "User denied." for a delete_database_table request
\* refused at the approval prompt, and otherwise the "[System Fallback]" text
\* holding the name as Python's repr escapes it; the rest of the batch and
\* the second inference still run.
C3_UnregisteredGetsFallback ==
    mode = "main" =>
        /\ \A k \in 1..MainProcessed :
              ~Registered(k) =>
                /\ MainResult(k).type = "tool"
                /\ MainResult(k).tool_call_id = Batch[k].id
                /\ MainResult(k).name = Batch[k].name
                /\ \/ /\ Batch[k].name = "delete_database_table"
                      /\ MainResult(k).content = DeniedText
                   \/ /\ StartsWith(MainResult(k).content, "[System Fallback] ")
                      /\ Contains(MainResult(k).content, "'" \o EscapedName(Batch[k].name) \o "'")
        /\ MainResultCount = MainProcessed
        /\ (PassOver /\ Batch # <<>>) => (Len(calls) >= 2 /\ calls[Len(calls)].kind = "llm")
        /\ output.kind = "error" => calls[Len(calls)].kind = "llm"

\* a pass of the interactive loop that met an approved delete_database_table
\* request and an invented name, recorded both fallbacks and answered
C3_Witness ==
    /\ mode = "main" /\ PassOver /\ SecondResponded /\ output.kind = "answer"
    /\ Len(Batch) = 2
    /\ Batch[1].name = "c:\\dir"
    /\ Batch[2].name = "delete_database_table"
    /\ Contains(MainResult(1).content, "c:\\\\dir")
    /\ Contains(MainResult(2).content, "'delete_database_table'")

----------------------------------------------------------------------------
(* C4 *)

\* C4 as stated, read on the passes that no escaping exception cuts short:
\* a first-phase response with N >= 1 tool requests, whatever their names,
\* leads to exactly N tool invocations, one per request in emitted order, and
\* then to exactly one second-phase model invocation.
C4_ExactlyNInvocations ==
    Batch # <<>> =>
        /\ (pc = "tools" \/ pc = "second") =>
              /\ Len(ToolEvents) = (IF pc = "tools" THEN idx - 1 ELSE Len(Batch))
              /\ \A j \in 1..Len(ToolEvents) : ToolEvents[j].at = j
        /\ (PassOver /\ output.kind = "answer") =>
              /\ Len(ToolEvents) = Len(Batch)
              /\ Len(calls) = Len(Batch) + 2
              /\ calls[Len(calls)].kind = "llm"

\* C4 amended: a first-phase response with N >= 1 tool requests is handled
\* request by request in emitted order; a tool is invoked for exactly the
\* requests whose lower-cased name is registered, in emitted order, and never
\* for the others.  The interactive adapter always follows this with exactly
\* one second-phase model invocation; the HTTP adapter does so unless an
\* invoke raises, and then stops at that invocation without a second one.
C4_InvocationsFollowRegisteredRequests ==
    Batch # <<>> =>
        LET T == Len(ToolEvents)
            E == ExpectedAts
        IN /\ T <= Len(E)
           /\ \A j \in 1..T :
                /\ calls[1 + j] = ToolEvents[j]
                /\ ToolEvents[j].at = E[j]
                /\ ToolEvents[j].tool = Lower(Batch[E[j]].name)
                /\ ToolEvents[j].raised /\ mode = "server" => j = T /\ Len(calls) = T + 1
           /\ Len(calls) <= T + 2
           /\ Len(calls) = T + 2 => T = Len(E)
           /\ PassOver =>
                \/ Len(calls) = Len(E) + 2
                \/ mode = "server" /\ T >= 1 /\ ToolEvents[T].raised

\* a /chat pass over two requests, the first not registered and skipped, the
\* second invoked, ended by the second inference
C4_Witness ==
    /\ mode = "server" /\ PassOver /\ SecondResponded
    /\ Len(Batch) = 2
    /\ ExpectedAts = <<2>>
    /\ Len(ToolEvents) = 1
    /\ Len(calls) = 3

----------------------------------------------------------------------------
(* C5 *)

\* C5: when the first-phase response carries no tool request, the pass makes
\* exactly one model invocation and no tool invocation, and the user-visible
\* answer is that response's text.
C5_NoToolsOneInvocation ==
    (PassOver /\ FirstResponded /\ Batch = <<>>) =>
        /\ calls = <<LLMCall(FALSE)>>
        /\ output = Answer(response.content)
        /\ CurrentHistory[Len(CurrentHistory)] = response

\* a pass whose only response has whitespace-only text and no tool request
C5_Witness ==
    /\ PassOver /\ FirstResponded /\ Batch = <<>>
    /\ response.content = " \n"
    /\ output.kind = "answer"
    /\ mode = "main"

----------------------------------------------------------------------------
(* C6 *)

\* the directory itself or something below it
InsideBase(parts) ==
    Len(parts) >= Len(BaseDirParts) /\ SubSeq(parts, 1, Len(BaseDirParts)) = BaseDirParts

\* C6: in server.py's read_local_file, every file_path whose resolved target
\* lies outside the base directory ~/Desktop/portfolio gets the
\* security-violation string and the file is never opened, and this covers
\* ".." segments, absolute paths and sibling directories whose name starts
\* with the base directory's name.
C6_OutsideBaseIsRefused ==
    (mode = "read_local_file" /\ pc = "done" /\ ~InsideBase(TargetParts(tool_arg)))
    => (tool_effect.returned = SecurityViolation /\ ~tool_effect.opened)

----------------------------------------------------------------------------
(* C7 *)

\* the tool requests of earlier Assistant messages whose id is the token of
\* the ToolResult at index i of history h, as <<message index, request index>>
MatchingRequests(h, i) ==
    UNION {{<<j, k>> : k \in {n \in 1..Len(h[j].tool_calls) :
                                h[j].tool_calls[n].id = h[i].tool_call_id}} :
           j \in {m \in 1..(i - 1) : h[m].type = "ai"}}

ToolResultsOf(h) == {i \in 1..Len(h) : h[i].type = "tool"}

\* C7 as stated: in every reachable history every ToolResult's correlation
\* token equals the id of exactly one Tool Request of an earlier Assistant
\* message of the same history, whatever ids the model emits.
C7_ExactlyOneMatchingRequest ==
    \A s \in DOMAIN Histories :
        \A i \in ToolResultsOf(Histories[s]) :
            Cardinality(MatchingRequests(Histories[s], i)) = 1

\* C7 amended: in every reachable history every ToolResult's correlation
\* token equals the id of at least one Tool Request of an earlier Assistant
\* message of the same history (never zero); it is exactly one only while the
\* model does not repeat an id, which the loop neither checks nor enforces.
C7_SomeMatchingRequest ==
    \A s \in DOMAIN Histories :
        \A i \in ToolResultsOf(Histories[s]) :
            Cardinality(MatchingRequests(Histories[s], i)) >= 1

\* a history in which the token of a ToolResult matches two tool requests
C7_Witness ==
    \E s \in DOMAIN Histories :
        \E i \in ToolResultsOf(Histories[s]) :
            Cardinality(MatchingRequests(Histories[s], i)) = 2

----------------------------------------------------------------------------
(* C8 *)

CountOf(h, t) == Cardinality({i \in 1..Len(h) : h[i].type = t})

\* C8: every session history, and the interactive adapter's history, has the
\* System message at index 0 and holds exactly one System message, however
\* often the session is accessed.
C8_OneSystemMessageFirst ==
    \A s \in DOMAIN Histories :
        /\ Len(Histories[s]) >= 1
        /\ Histories[s][1].type = "system"
        /\ CountOf(Histories[s], "system") = 1

\* a session accessed by two requests, beside another session
C8_Witness ==
    /\ mode = "server"
    /\ Cardinality(DOMAIN session_db) = 2
    /\ \E s \in DOMAIN session_db : CountOf(session_db[s], "human") = 2

----------------------------------------------------------------------------
(* C9 *)

IsPrefix(a, b) == Len(a) <= Len(b) /\ SubSeq(b, 1, Len(a)) = a

\* C9: a history is append-only: every step leaves the messages it held as
\* a prefix of the new history, and a request that starts on an existing
\* session works on exactly the history the earlier requests left, plus its
\* own Human message.
C9_AppendOnly ==
    [][ /\ \A s \in DOMAIN Histories :
             /\ s \in DOMAIN Histories'
             /\ IsPrefix(Histories[s], Histories'[s])
        /\ (mode = "server" /\ pc = "idle" /\ pc' = "first"
              /\ req'.session_id \in DOMAIN session_db)
           => session_db'[req'.session_id]
                = Append(session_db[req'.session_id], HumanMessage(req'.message))
      ]_vars

\* the second request of a session starts on what the first one left
C9_Witness ==
    /\ mode = "server" /\ pc = "first"
    /\ Len(CurrentHistory) = 4
    /\ CurrentHistory[2].type = "human"
    /\ CurrentHistory[3].type = "ai"
    /\ CurrentHistory[4].type = "human"

----------------------------------------------------------------------------
(* C10 *)

\* C10: an exception that escapes a pass is caught at the transport boundary:
\* the step that reports it leaves every history as it was (nothing appended
\* before the failure is rolled back), the interactive loop is back at its
\* input prompt and the HTTP handler has answered 500; the next request
\* starts from that left-over history and is answered on its own.
C10_FailureLeavesHistory ==
    [][ /\ (output.kind # "error" /\ output'.kind = "error") =>
             /\ Histories' = Histories
             /\ pc' = (IF mode = "main" THEN "input" ELSE "idle")
             /\ output'.text = (IF mode = "main" THEN CriticalError(LLMFailure)
                                ELSE InternalServerError)
        /\ (output.kind = "error" /\ pc' = "first") =>
             /\ output' = NoOutput
             /\ \A s \in DOMAIN Histories :
                  /\ s \in DOMAIN Histories'
                  /\ Histories'[s] \in {Histories[s],
                                        Append(Histories[s], CurrentHistory'[Len(CurrentHistory')])}
             /\ CurrentHistory'[Len(CurrentHistory')].type = "human"
             /\ (mode = "main" \/ req'.session_id \in DOMAIN session_db) =>
                  Len(CurrentHistory') = Len(Histories[IF mode = "main" THEN "cli"
                                                       ELSE req'.session_id]) + 1
      ]_vars

\* a /chat request answered 200 on a session whose previous request failed
\* in its first inference and left its Human message behind
C10_Witness ==
    /\ mode = "server" /\ PassOver /\ output.kind = "answer"
    /\ \E i \in 1..(Len(CurrentHistory) - 1) :
          CurrentHistory[i].type = "human" /\ CurrentHistory[i + 1].type = "human"

----------------------------------------------------------------------------
(* C11 *)

\* C11: under any interleaving of simultaneous /chat requests, a step of the
\* request for session A changes only session A's history: every other
\* session's history is left as it was, and creating a session adds only
\* that identifier's entry to session_db.
C11_OnlyOwnSession ==
    [][\E h \in HandlerIds :
         /\ \A g \in HandlerIds \ {h} : handlers'[g] = handlers[g]
         /\ LET a == handlers'[h].req.session_id
            IN /\ \A b \in DOMAIN session_db \ {a} :
                     b \in DOMAIN session_db' /\ session_db'[b] = session_db[b]
               /\ DOMAIN session_db' \subseteq DOMAIN session_db \cup {a}]_vars

\* a request has created its session and appended its Human message while
\* another session, created by an earlier request, holds a whole pass
C11_Witness ==
    /\ mode = "asgi"
    /\ \E g, h \in HandlerIds :
        /\ handlers[g].pc = "done" /\ handlers[h].pc = "first"
        /\ handlers[g].req.session_id # handlers[h].req.session_id
        /\ DOMAIN session_db = {handlers[g].req.session_id, handlers[h].req.session_id}
        /\ Len(session_db[handlers[g].req.session_id]) >= 3

----------------------------------------------------------------------------
(* C12 *)

SameSession(g, h) == g # h /\ handlers[g].req.session_id = handlers[h].req.session_id

\* C12 as the specification states it: two simultaneous requests with the
\* same session identifier are not serialized against each other, so while
\* one is inside its pass the other can start and append its Human message
\* between the first one's messages.
C12_SameSessionNotSerialized ==
    \A g, h \in HandlerIds :
        (/\ mode = "asgi" /\ SameSession(g, h)
         /\ MidBody(g) /\ handlers[h].pc = "queued"
         /\ TotalMessages + 2 <= MaxMessages)
        => ENABLED TaskStart(h)

\* the messages task h has put into its session's history: its Human message
\* at position `at` and `appended` more behind it
SegmentIntact(h) ==
    LET hist == session_db[handlers[h].req.session_id]
        first == handlers[h].at
        last == handlers[h].at + handlers[h].appended
    IN /\ last <= Len(hist)
       /\ hist[first].type = "human"
       /\ \A i \in (first + 1)..last : hist[i].type # "human"
       /\ MidBody(h) => last = Len(hist)

\* C12, amended: two simultaneous requests with the same session identifier
\* are served one after the other.  chat_endpoint never awaits, so at most
\* one request is inside its pass at a time, and the messages of a pass are
\* adjacent in the shared history: no message of another request lands
\* between them.
C12_SameSessionSerialized ==
    mode = "asgi" =>
        /\ \A g, h \in HandlerIds : g # h => ~(MidBody(g) /\ MidBody(h))
        /\ \A h \in HandlerIds :
               handlers[h].pc \in {"first", "tools", "second", "done"} => SegmentIntact(h)

\* one request is before its second inference while another request for the
\* same session waits
C12_Witness ==
    /\ mode = "asgi"
    /\ \E g, h \in HandlerIds :
        /\ SameSession(g, h)
        /\ handlers[g].pc = "second" /\ handlers[g].appended = 2
        /\ handlers[h].pc = "queued"
        /\ TotalMessages + 2 <= MaxMessages

----------------------------------------------------------------------------
(* C13 *)

\* the handler is at a tool request whose name is not registered
AtUnregistered ==
    /\ mode = "server" /\ pc = "tools"
    /\ Lower(response.tool_calls[idx].name) \notin ServerToolsMap

\* C13: in the HTTP handler a tool request whose name is not registered is
\* silently skipped: the step that reaches it invokes no tool, appends no
\* ToolResult and raises no error; the loop moves on to the next request of
\* the batch, and after the last one to the second inference, which is then
\* invoked and whose response, when the model returns one, is the reply.
C13_UnregisteredSilentlySkipped ==
    [][/\ AtUnregistered =>
            /\ calls' = calls
            /\ session_db' = session_db
            /\ output' = output /\ response' = response
            /\ IF idx < Len(response.tool_calls)
               THEN pc' = "tools" /\ idx' = idx + 1
               ELSE pc' = "second"
       /\ (mode = "server" /\ pc = "second") =>
            /\ Len(calls') = Len(calls) + 1
            /\ calls'[Len(calls')].kind = "llm"
            /\ ~calls'[Len(calls')].raised =>
                 LET hist == session_db'[req.session_id]
                 IN /\ Len(hist) = Len(session_db[req.session_id]) + 1
                    /\ output' = Answer(hist[Len(hist)].content)]_vars

\* a pass whose batch holds an unregistered name followed by a registered
\* one ended with a reply: the first was skipped, the second executed
C13_Witness ==
    /\ mode = "server" /\ PassOver /\ output.kind = "answer" /\ SecondResponded
    /\ \E k, j \in 1..Len(Batch) : k < j /\ ~Registered(k) /\ Registered(j)
    /\ Len(ToolEvents) = 1
    /\ Len(SelectSeq(AfterFirst, IsToolMessage)) = 1

----------------------------------------------------------------------------
(* C14 *)

\* C14: every tool (time, file read, memory search and web search, of
\* main.py and of server.py) turns every internal failure into a returned
\* string that begins with "[Error]".
C14_FailuresReturnErrorPrefix ==
    /\ (mode = "tool" /\ pc = "done" /\ calls # <<>> /\ calls[1].raised)
           => StartsWith(tool_effect.returned, "[Error]")
    /\ (mode = "read_local_file" /\ pc = "done"
            /\ ~StartsWith(tool_effect.returned, "[File Content of "))
           => StartsWith(tool_effect.returned, "[Error]")

----------------------------------------------------------------------------
(* C16 *)

\* the query holds the keyword in some letter case
HoldsKeyword(query, key) == Contains(Lower(query), Lower(key))

Keywords == {zone_mapping[i].key : i \in 1..Len(zone_mapping)}

\* the zone get_current_time asked ZoneInfo for
ResolvedZone == calls[1].tool

\* C16: for every timezone_query that holds "KST" in any letter case,
\* whatever else it holds, the time tool resolves Asia/Seoul; for every query
\* that holds none of the table's keywords it resolves America/Chicago; and
\* when several keywords match, the first of them in table order decides.
C16_ZoneResolution ==
    (mode = "tool" /\ pc = "done" /\ tool_arg.tool = "get_current_time") =>
        LET q == tool_arg.arg
            hits == {i \in 1..Len(zone_mapping) : HoldsKeyword(q, zone_mapping[i].key)}
        IN /\ HoldsKeyword(q, "KST") => ResolvedZone = "Asia/Seoul"
           /\ (\A k \in Keywords : ~HoldsKeyword(q, k)) => ResolvedZone = "America/Chicago"
           /\ hits # {} =>
                ResolvedZone = zone_mapping[CHOOSE i \in hits : \A j \in hits : i <= j].val

\* the tool has answered a query that holds KST in mixed case next to a
\* Chicago keyword
C16_Witness ==
    /\ mode = "tool" /\ pc = "done" /\ tool_arg.tool = "get_current_time"
    /\ tool_arg.arg = "cstKst"
    /\ ResolvedZone = "Asia/Seoul"

----------------------------------------------------------------------------
(* C15 *)

\* the name is a letter-case variant of the registered name t
CaseVariant(name, t) == Upper(name) = Upper(t)

\* the requests of the batch the tool loop has gone past
GonePast ==
    IF ~FirstResponded THEN {}
    ELSE IF pc = "tools" THEN 1..(idx - 1)
    ELSE IF pc = "second" THEN 1..Len(Batch)
    ELSE {}

\* the approval gate of main.py keeps a request from the lookup
Gated(k) == mode = "main" /\ Batch[k].name = "delete_database_table"

\* C15: tool lookup is case-insensitive.  Every request whose name is a
\* letter-case variant of a registered tool's name is resolved to that tool
\* and the tool is invoked; a request whose name matches no registered tool
\* under case folding is treated as not found and nothing is invoked for it.
C15_CaseInsensitiveLookup ==
    mode \in {"main", "server"} =>
        /\ \A i \in 1..Len(ToolEvents) :
               /\ ToolEvents[i].tool \in ToolsMap
               /\ CaseVariant(Batch[ToolEvents[i].at].name, ToolEvents[i].tool)
        /\ \A k \in GonePast :
               ~Gated(k) =>
                  ((\E t \in ToolsMap : CaseVariant(Batch[k].name, t))
                      <=> (\E i \in 1..Len(ToolEvents) : ToolEvents[i].at = k))

\* a request spelt Web_Search was resolved to web_search and invoked
C15_Witness ==
    /\ mode \in {"main", "server"}
    /\ \E i \in 1..Len(ToolEvents) :
          /\ ToolEvents[i].tool = "web_search"
          /\ Batch[ToolEvents[i].at].name = "Web_Search"
    /\ pc = "second"

----------------------------------------------------------------------------
(* C17 *)

InPass == pc \in {"first", "tools", "second"}

ModelCalls == Len(calls) - Len(ToolEvents)

\* an upper bound on the steps the pass in progress still has to take
StepsLeft ==
    IF pc = "first" THEN MaxCalls + 3
    ELSE IF pc = "tools" THEN Len(response.tool_calls) - idx + 2
    ELSE IF pc = "second" THEN 1
    ELSE 0

\* C17: in the interactive loop a line equal to "quit" or "exit" in any
\* letter case ends the loop without appending anything to the history and
\* without invoking the model; every other line appends exactly one Human
\* message and runs exactly one orchestration pass, every step of which
\* brings the loop nearer to the prompt, where the pass ends.
C17_QuitOrOnePass ==
    /\ [][pc = "input" =>
            IF Upper(req'.message) \in {"QUIT", "EXIT"}
            THEN pc' = "halt" /\ chat_history' = chat_history /\ calls' = calls
            ELSE /\ pc' = "first" /\ calls' = <<>>
                 /\ chat_history' = Append(chat_history, HumanMessage(req'.message))]_vars
    /\ [][pc # "halt"]_vars
    /\ [][InPass => /\ req' = req
                    /\ \A i \in 1..LastHuman(chat_history) : chat_history'[i] = chat_history[i]
                    /\ LastHuman(chat_history') = LastHuman(chat_history)]_vars
    /\ []((pc = "input" /\ calls # <<>>) => (calls[1].kind = "llm" /\ ModelCalls \in {1, 2}))
    /\ [][InPass => (pc' \in {"first", "tools", "second", "input"}
                      /\ StepsLeft' < StepsLeft)]_vars

\* after a pass with a tool request has run, the line QUIT has ended the loop
C17_Witness ==
    /\ mode = "main" /\ pc = "halt" /\ req.message = "QUIT"
    /\ Len(chat_history) >= 5
    /\ chat_history[2] = HumanMessage("quit now")

----------------------------------------------------------------------------
(* C18 *)

\* the pass is over and ended with an answer, not with a pipeline failure
PassCompleted == PassOver /\ output.kind = "answer" /\ FirstResponded

\* what the pass appended: from its Human message to the end of the history
Segment == SubSeq(CurrentHistory, LastHuman(CurrentHistory), Len(CurrentHistory))

\* the ToolResult messages of the segment
SegmentResults == SubSeq(Segment, 3, Len(Segment) - 1)

SegmentFramed ==
    /\ Len(Segment) >= 2
    /\ Segment[1].type = "human"
    /\ Segment[2] = response
    /\ Batch = <<>> => Len(Segment) = 2
    /\ Batch # <<>> =>
          /\ Len(Segment) >= 3
          /\ Segment[Len(Segment)].type = "ai"
          /\ \A i \in 1..Len(SegmentResults) : SegmentResults[i].type = "tool"

\* C18 as the specification states it: a pass that completes without a
\* pipeline failure appends Human, Assistant and, when the first response
\* has N >= 1 tool requests, exactly N ToolResults, one per request, in
\* emitted order and with the request's id, then one Assistant message.
C18_SegmentHasNResults ==
    PassCompleted =>
        /\ SegmentFramed
        /\ Len(SegmentResults) = Len(Batch)
        /\ \A k \in 1..Len(SegmentResults) : SegmentResults[k].tool_call_id = Batch[k].id

\* the requests that get a ToolResult: all of them in the interactive loop,
\* those naming a registered tool in the HTTP handler
Answered == IF mode = "main" THEN [k \in 1..Len(Batch) |-> k] ELSE ExpectedAts

\* C18, amended: a pass that completes without a pipeline failure appends
\* Human, Assistant and, when the first response has tool requests, one
\* ToolResult per request in emitted order, each with its request's id and
\* name and all of them before the second model invocation, then one
\* Assistant message; in the HTTP handler the requests that name no
\* registered tool get no ToolResult.
C18_SegmentFollowsRequests ==
    /\ PassCompleted =>
          /\ SegmentFramed
          /\ Len(SegmentResults) = Len(Answered)
          /\ \A i \in 1..Len(SegmentResults) :
                /\ SegmentResults[i].tool_call_id = Batch[Answered[i]].id
                /\ SegmentResults[i].name = Batch[Answered[i]].name
          /\ Batch # <<>> => SecondResponded
    /\ (mode \in {"main", "server"} /\ pc = "second") =>
          /\ Len(AfterFirst) = Len(Answered)
          /\ \A i \in 1..Len(AfterFirst) : AfterFirst[i].type = "tool"
          /\ ModelCalls = 1

\* an HTTP pass with two requests, the first of them unregistered, has
\* completed with one ToolResult
C18_Witness ==
    /\ mode = "server" /\ PassCompleted
    /\ Len(Batch) = 2 /\ ~Registered(1) /\ Registered(2)
    /\ Len(SegmentResults) = 1
    /\ SegmentResults[1].tool_call_id = Batch[2].id

----------------------------------------------------------------------------
(* C19 *)

\* the second-phase response, once the model has returned it
SecondResponse == CurrentHistory[Len(CurrentHistory)]

\* what both readings of C19 share: at most two model invocations in a
\* pass; the second response ends the pass and is appended as it came; the
\* tools invoked and the ToolResults recorded are those of the first batch
DepthTwo ==
    /\ ModelCalls <= 2
    /\ SecondResponded =>
          /\ PassOver
          /\ ModelCalls = 2
          /\ SecondResponse.type = "ai"
          /\ Len(AfterFirst) = Len(SelectSeq(AfterFirst, IsToolMessage)) + 1
          /\ Len(SelectSeq(AfterFirst, IsToolMessage)) <= Len(Batch)
          /\ \A i \in 1..Len(ToolEvents) :
                /\ ToolEvents[i].at \in 1..Len(Batch)
                /\ \A j \in 1..Len(ToolEvents) : i < j => ToolEvents[i].at < ToolEvents[j].at

\* C19 as the specification states it: the protocol has depth two; tool
\* requests of the second-phase response are never executed and produce no
\* ToolResult; the second-phase response is appended as is and its text is
\* the answer.
C19_SecondTextIsAnswer ==
    mode \in {"main", "server"} =>
        /\ DepthTwo
        /\ SecondResponded => output = Answer(SecondResponse.content)

\* C19, amended: as above, and the text of the second-phase response is the
\* answer, except that the interactive loop prints its fallback line when
\* that text is blank.
C19_DepthTwo ==
    mode \in {"main", "server"} =>
        /\ DepthTwo
        /\ SecondResponded =>
              output = Answer(IF mode = "main" /\ Strip(SecondResponse.content) = ""
                              THEN FallbackMessage
                              ELSE SecondResponse.content)

\* a second-phase response that itself asks for tools has ended the pass
C19_Witness ==
    /\ mode \in {"main", "server"} /\ SecondResponded /\ PassOver
    /\ SecondResponse.tool_calls # <<>>
    /\ output = Answer("answer")

----------------------------------------------------------------------------
(* C20 *)

\* the interactive loop is at a request of the batch
AtRequest == mode = "main" /\ pc = "tools"

\* the tools the step at a request invoked
Added == SubSeq(calls', Len(calls) + 1, Len(calls'))

\* the answers the step at a request asked for
Asked == SubSeq(approvals', Len(approvals) + 1, Len(approvals'))

Recorded == chat_history'[Len(chat_history')]

\* C20: in the interactive loop, for a tool request named
\* delete_database_table approval is asked before any lookup or invocation;
\* when the answer is anything other than y in either letter case no tool is
\* invoked for the request, exactly one ToolResult with the request's id and
\* the denial text is appended, and the loop goes on to the next request or,
\* after the last, to the second inference.  No other name triggers the gate.
C20_ApprovalGate ==
    [][AtRequest =>
         LET tool_call == response.tool_calls[idx]
         IN /\ Len(chat_history') = Len(chat_history) + 1
            /\ Recorded.type = "tool" /\ Recorded.tool_call_id = tool_call.id
            /\ IF idx < Len(response.tool_calls)
               THEN pc' = "tools" /\ idx' = idx + 1
               ELSE pc' = "second"
            /\ \A i \in 1..Len(Added) : Added[i].kind = "tool" /\ Added[i].at = idx
            /\ IF tool_call.name = "delete_database_table"
               THEN /\ Len(Asked) = 1 /\ Asked[1].at = idx
                    /\ Upper(Asked[1].answer) # "Y" =>
                          /\ Added = <<>>
                          /\ Recorded = ToolMessage(tool_call.id, tool_call.name, "User denied.")
                    /\ Upper(Asked[1].answer) = "Y" => Recorded.content # "User denied."
               ELSE /\ Asked = <<>>
                    /\ Recorded.content # "User denied."]_vars

\* a pass whose batch began with a refused delete_database_table and went on
\* to invoke web_search has ended with an answer
C20_Witness ==
    /\ mode = "main" /\ PassOver /\ output.kind = "answer" /\ SecondResponded
    /\ Len(Batch) = 2 /\ Batch[1].name = "delete_database_table"
    /\ approvals = <<ApprovalCall("yes", 1)>>
    /\ MainResult(1).content = "User denied."
    /\ Len(ToolEvents) = 1 /\ ToolEvents[1].at = 2

====
